---------------------------- MODULE Spec2Model ----------------------------
(***************************************************************************)
(* Model of greenhouse_gases_module_Gracie.py: class Data (a site/species  *)
(* time series with weekly means, a rolling 5th-percentile baseline and    *)
(* two plots).                                                             *)
(*                                                                         *)
(* Library semantics assumed (pandas 1.x, the generation the module runs   *)
(* on): GroupBy.mean() and DataFrame.describe() use the numeric columns    *)
(* only and skip NaN; rolling(w) has min_periods = w; quantile()           *)
(* interpolates linearly; dropna() drops a row with any NaN; assigning a   *)
(* frame of several columns to one column raises ValueError.               *)
(*                                                                         *)
(* Numbers are exact rationals (the code uses float64).  Every cell of a   *)
(* table is a record [k, n, d]: k = "num" is n/d in lowest terms,          *)
(* k = "nan" is NaN, k = "time" is a timestamp (n hours since the epoch),  *)
(* k = "W" / "D" is a weekly / daily Period with ordinal n, k = "int" is   *)
(* a RangeIndex label.                                                     *)
(***************************************************************************)
EXTENDS Integers, Sequences, FiniteSets, TLC

VARIABLES files, obj, held, pyplot, call, ret, err, ncalls

vars == <<files, obj, held, pyplot, call, ret, err, ncalls>>

-----------------------------------------------------------------------------
(* Bounds of the model.                                                    *)

\* calls made on the constructed datasets
MaxCalls == 3
\* longest run of consecutive days in a generated measurement file
MaxDays == 15
\* most weeks in a generated weekly-spaced measurement file
MaxWeeks == 3

-----------------------------------------------------------------------------
(* Cells and rational arithmetic.                                          *)

RECURSIVE GCD(_, _)
GCD(a, b) == IF b = 0 THEN a ELSE GCD(b, a % b)

Abs(x) == IF x < 0 THEN -x ELSE x

Num(n, d) ==
    LET s == IF d < 0 THEN -1 ELSE 1
        g == GCD(Abs(n), Abs(d))
    IN  [k |-> "num", n |-> (s * n) \div g, d |-> (s * d) \div g]

NaN == [k |-> "nan", n |-> 0, d |-> 1]
Time(h) == [k |-> "time", n |-> h, d |-> 1]
Period(freq, ord) == [k |-> freq, n |-> ord, d |-> 1]
Label(i) == [k |-> "int", n |-> i, d |-> 1]

IsNaN(c) == c.k = "nan"

RAdd(a, b) == Num(a.n * b.d + b.n * a.d, a.d * b.d)
RSub(a, b) == Num(a.n * b.d - b.n * a.d, a.d * b.d)
RMul(a, b) == Num(a.n * b.n, a.d * b.d)
RLeq(a, b) == a.n * b.d <= b.n * a.d

RECURSIVE RSum(_)
RSum(s) == IF s = <<>> THEN Num(0, 1) ELSE RAdd(Head(s), RSum(Tail(s)))

\* Series.mean(): NaN are skipped, the mean of nothing is NaN
Mean(s) ==
    LET v == SelectSeq(s, LAMBDA c : ~IsNaN(c))
    IN  IF v = <<>> THEN NaN ELSE RMul(RSum(v), Num(1, Len(v)))

RECURSIVE Insert(_, _)
Insert(x, s) ==
    IF s = <<>> THEN <<x>>
    ELSE IF RLeq(x, Head(s)) THEN <<x>> \o s
    ELSE <<Head(s)>> \o Insert(x, Tail(s))

RECURSIVE SortNums(_)
SortNums(s) == IF s = <<>> THEN <<>> ELSE Insert(Head(s), SortNums(Tail(s)))

\* variant: the lower of the two order statistics, no interpolation
QuantileLower(s, qn, qd) == SortNums(s)[((qn * (Len(s) - 1)) \div qd) + 1]

\* quantile qn/qd of the numbers s, linear interpolation between the two
\* order statistics around position q * (n - 1)
Quantile(s, qn, qd) ==
    LET srt == SortNums(s)
        pos == qn * (Len(s) - 1)
        idx == pos \div qd
        rem == pos % qd
    IN  IF rem = 0 THEN srt[idx + 1]
        ELSE RAdd(srt[idx + 1],
                  RMul(RSub(srt[idx + 2], srt[idx + 1]), Num(rem, qd)))

RECURSIVE SortedSeq(_)
SortedSeq(S) ==
    IF S = {} THEN <<>>
    ELSE LET m == CHOOSE x \in S : \A y \in S : x <= y
         IN  <<m>> \o SortedSeq(S \ {m})

\* the sequence with elements f[1], ..., f[n], built once
List(f) == <<>> \o f

\* variant: the last element is kept
DropLastNone(s) == s

\* s[:-1]
DropLast(s) == IF s = <<>> THEN <<>> ELSE SubSeq(s, 1, Len(s) - 1)

-----------------------------------------------------------------------------
(* Calendar.  Hour 0 is Monday 2020-12-21 00:00, the first day of ISO week *)
(* 52 of 2020; ISO week 53 of 2020 and week 1 of 2021 follow.              *)

Epoch == [year |-> 2020, dayofyear |-> 356]

IsLeap(y) == (y % 4 = 0 /\ y % 100 # 0) \/ y % 400 = 0
YearLen(y) == IF IsLeap(y) THEN 366 ELSE 365

RECURSIVE DateFrom(_, _)
DateFrom(y, doy) ==
    IF doy > YearLen(y) THEN DateFrom(y + 1, doy - YearLen(y))
    ELSE [year |-> y, dayofyear |-> doy]

\* the calendar date of day ordinal day (days since the epoch)
DateOf(day) == DateFrom(Epoch.year, Epoch.dayofyear + day)

\* the ISO week number of a day: the week of the year of its week's Thursday
ISOWeek(day) ==
    LET thursday == DateOf(day - (day % 7) + 3)
    IN  ((thursday.dayofyear - 1) \div 7) + 1

\* variant: weeks that run from Sunday to Saturday
ToPeriodSundayWeek(t, freq) ==
    IF freq = "D" THEN Period("D", t.n \div 24)
    ELSE Period("W", ((t.n \div 24) + 1) \div 7)

\* DatetimeIndex(...).to_period(freq) of one timestamp: "D" truncates to the
\* day, "W" to the Monday-to-Sunday week holding it
ToPeriod(t, freq) ==
    IF freq = "D" THEN Period("D", t.n \div 24)
    ELSE Period("W", (t.n \div 24) \div 7)

\* the last day of a period: the date its fields are read from
PeriodEndDay(p) == IF p.k = "W" THEN 7 * p.n + 6 ELSE p.n

\* PeriodIndex.week / PeriodIndex.year of one period
WeekOf(p) == ISOWeek(PeriodEndDay(p))
YearOf(p) == DateOf(PeriodEndDay(p)).year

-----------------------------------------------------------------------------
(* DataFrames: [columns, dtypes, index, data], data[r][c] the cell of row  *)
(* r in column c.                                                          *)

\* variant: Period columns count as numeric
IsNumericOrPeriod(dt) == dt # "object"

\* pandas' numeric_only column selection
IsNumericDtype(dt) == dt = "float64"

HasCol(df, name) == \E i \in 1..Len(df.columns) : df.columns[i] = name
Col(df, name) == CHOOSE i \in 1..Len(df.columns) : df.columns[i] = name
ColumnValues(df, i) == List([r \in 1..Len(df.data) |-> df.data[r][i]])
NRows(df) == Len(df.index)

\* the dtype read_csv infers for a column from its cells
InferDtype(cells) ==
    IF \A i \in 1..Len(cells) : cells[i].k \in {"num", "nan"} THEN "float64"
    ELSE "object"

\* pd.read_csv(path): the file's columns under a RangeIndex
read_csv(file) ==
    [columns |-> file.header,
     dtypes  |-> List([c \in 1..Len(file.header) |->
                    InferDtype([r \in 1..Len(file.rows) |-> file.rows[r][c]])]),
     index   |-> List([r \in 1..Len(file.rows) |-> Label(r - 1)]),
     data    |-> file.rows]

\* df[name] = values: replaces the column when it exists, else appends it
SetItem(df, name, dtype, values) ==
    IF HasCol(df, name)
    THEN LET c == Col(df, name)
         IN  [df EXCEPT !.dtypes[c] = dtype,
                        !.data = List([r \in 1..Len(df.data) |->
                                    [df.data[r] EXCEPT ![c] = values[r]]])]
    ELSE [df EXCEPT !.columns = Append(df.columns, name),
                    !.dtypes = Append(df.dtypes, dtype),
                    !.data = List([r \in 1..Len(df.data) |->
                                Append(df.data[r], values[r])])]

\* df.rename(columns = {from: to})
Rename(df, from, to) ==
    [df EXCEPT !.columns = List([c \in 1..Len(df.columns) |->
                              IF df.columns[c] = from THEN to ELSE df.columns[c]])]

\* the positions 1..n, in order
Indices(n) == List([j \in 1..n |-> j])

\* df.groupby([key]).mean(): one row per key value present, sorted by key;
\* the numeric columns other than the key, each the mean of its group
GroupByMean(df, key) ==
    LET kc   == Col(df, key)
        keys == {df.data[r][kc] : r \in 1..Len(df.data)}
        ords == SortedSeq({k.n : k \in keys})
        idx  == List([j \in 1..Len(ords) |-> CHOOSE k \in keys : k.n = ords[j]])
        num  == SelectSeq(Indices(Len(df.columns)),
                          LAMBDA c : c # kc /\ IsNumericDtype(df.dtypes[c]))
        Group(j, c) ==
            LET rows == SelectSeq(Indices(Len(df.data)),
                                  LAMBDA r : df.data[r][kc] = idx[j])
            IN  List([i \in 1..Len(rows) |-> df.data[rows[i]][c]])
    IN  [columns |-> List([c \in 1..Len(num) |-> df.columns[num[c]]]),
         dtypes  |-> List([c \in 1..Len(num) |-> "float64"]),
         index   |-> idx,
         data    |-> List([j \in 1..Len(idx) |->
                        List([c \in 1..Len(num) |-> Mean(Group(j, num[c]))])])]

\* df.rolling(w).quantile(q): per column, row r holds the quantile of rows
\* r-w+1..r, NaN when fewer than w rows precede or one of them is NaN
RollingQuantile(df, w, q) ==
    LET Cell(r, c) ==
            IF r < w THEN NaN
            ELSE LET win == List([i \in 1..w |-> df.data[r - w + i][c]])
                 IN  IF \E i \in 1..w : IsNaN(win[i]) THEN NaN
                     ELSE Quantile(win, q.num, q.den)
    IN  [df EXCEPT !.data = List([r \in 1..Len(df.data) |->
                               List([c \in 1..Len(df.columns) |-> Cell(r, c)])])]

\* variant: no row is dropped
DropNaNone(df) == df

\* df.dropna(): the rows without a NaN
DropNa(df) ==
    LET keep == SelectSeq(Indices(Len(df.data)),
                          LAMBDA r : \A c \in 1..Len(df.columns) :
                                        ~IsNaN(df.data[r][c]))
    IN  [df EXCEPT !.index = List([i \in 1..Len(keep) |-> df.index[keep[i]]]),
                   !.data  = List([i \in 1..Len(keep) |-> df.data[keep[i]]])]

Stat(name) == [k |-> name, n |-> 0, d |-> 1]

\* variant: every cell is counted
CountAll(cells) == Len(cells)

\* Series.count(): the cells that are not NaN
Count(cells) == Len(SelectSeq(cells, LAMBDA x : ~IsNaN(x)))

\* df.describe(): count, mean, min, quartiles and max of each numeric column
\* over its non-NaN cells (the std row, an irrational number, is left out)
Describe(df) ==
    LET num == SelectSeq(Indices(Len(df.columns)),
                         LAMBDA c : IsNumericDtype(df.dtypes[c]))
        Present(c) == SelectSeq(ColumnValues(df, c), LAMBDA x : ~IsNaN(x))
        Q(c, qn) == IF Present(c) = <<>> THEN NaN
                    ELSE Quantile(Present(c), qn, 4)
    IN  [columns |-> [c \in 1..Len(num) |-> df.columns[num[c]]],
         dtypes  |-> [c \in 1..Len(num) |-> "float64"],
         index   |-> <<Stat("count"), Stat("mean"), Stat("min"), Stat("25%"),
                       Stat("50%"), Stat("75%"), Stat("max")>>,
         data    |-> <<[c \in 1..Len(num) |-> Num(Count(ColumnValues(df, num[c])), 1)],
                       [c \in 1..Len(num) |-> Mean(Present(num[c]))],
                       [c \in 1..Len(num) |-> Q(num[c], 0)],
                       [c \in 1..Len(num) |-> Q(num[c], 1)],
                       [c \in 1..Len(num) |-> Q(num[c], 2)],
                       [c \in 1..Len(num) |-> Q(num[c], 3)],
                       [c \in 1..Len(num) |-> Q(num[c], 4)]>>]

-----------------------------------------------------------------------------
(* The module's global table and the class Data.                           *)

\* 14-day rolling window and the 5th percentile of baseline()
Window == 14
BaselineQuantile == [num |-> 5, den |-> 100]

\* data/species_info.csv, indexed by species: ch4 and co share scale and
\* units, n2o differs from ch4 in scale only, c2h6 in units only
species_info ==
    [ch4  |-> [scale |-> "TU-87",  units |-> "ppb"],
     co   |-> [scale |-> "TU-87",  units |-> "ppb"],
     n2o  |-> [scale |-> "SIO-16", units |-> "ppb"],
     c2h6 |-> [scale |-> "TU-87",  units |-> "ppt"]]

PathOf(site, species) == <<"data/", site, "_", species, ".csv">>

\* Data(site, species) over the file system fs
Data(fs, site, species) ==
    [site    |-> site,
     species |-> species,
     path    |-> PathOf(site, species),
     df      |-> read_csv(fs[PathOf(site, species)]),
     scale   |-> species_info[species].scale,
     units   |-> species_info[species].units]

\* variant: the value is stored over the attribute df
SetAttrOverDf(o, name, value) ==
    [a \in DOMAIN o |-> IF a = "df" THEN value ELSE o[a]]

\* setattr(o, name, value)
SetAttr(o, name, value) ==
    [a \in DOMAIN o \cup {name} |-> IF a = name THEN value ELSE o[a]]

NoError == [type |-> "", msg |-> ""]
Error(type, msg) == [type |-> type, msg |-> msg]

Call(op, self, other, data, data2) ==
    [op |-> op, self |-> self, other |-> other, data |-> data, data2 |-> data2]

\* self.df after self.df[name] = DatetimeIndex(self.df["time"]).to_period(freq)
WithPeriod(df, name, freq) ==
    SetItem(df, name, "period",
            List([r \in 1..Len(df.data) |-> ToPeriod(df.data[r][Col(df, "time")], freq)]))

\* the table weekly_ave() returns for stored table df
WeeklyAve(df) ==
    Rename(GroupByMean(WithPeriod(df, "week", "W"), "week"),
           "mf", "Weekly average mole fraction")

\* the day-grouped means of baseline() and their rolling quantile
DailyAve(df) == GroupByMean(WithPeriod(df, "day", "D"), "day")
DailyRoll(df) == RollingQuantile(DailyAve(df), Window, BaselineQuantile)

\* df_ave["Baseline"] = frame is an error unless frame has one column
BaselineRaises(df) == Len(DailyRoll(df).columns) # 1

\* the table baseline() returns for stored table df
Baseline(df) ==
    LET df_ave == DailyAve(df)
        roll == RollingQuantile(df_ave, Window, BaselineQuantile)
    IN  DropNa(SetItem(df_ave, "Baseline", "float64", ColumnValues(roll, 1)))

\* "Baseline" in title, over the column names that occur
ContainsBaseline(title) == title = "Baseline"

LastColumn(data) == ColumnValues(data, Len(data.columns))

Line(x, y, prefix, species, site, color) ==
    [x |-> x, y |-> y, color |-> color,
     label |-> [prefix |-> prefix, species |-> species, site |-> site]]

NewFigure ==
    [lines |-> <<>>, title |-> "",
     ylabel |-> [species |-> "", units |-> "", scale |-> ""],
     xlabel |-> [text |-> "", year |-> 0],
     xticks |-> <<>>, grid |-> FALSE, legend |-> FALSE, shown |-> FALSE]

\* str(period)
Str(p) == [p EXCEPT !.k = IF p.k = "W" THEN "strW" ELSE "strD"]

\* np.arange(0, n, n / 3.5)
XTicks(n) == [i \in 1..4 |-> Num(2 * (i - 1) * n, 7)]

-----------------------------------------------------------------------------
(* Measurement files.                                                      *)

Row(day, hour, mf) == <<Time(24 * day + hour), mf>>

\* mf of an ordinary day i of a daily file
DayValue(i) == Num(20 + 2 * (i % 3), 1)

\* the rows of day i (at day ordinal i + 1): one row, but on the special
\* day p what variant says
DayRows(i, p, variant) ==
    IF i # p THEN <<Row(i + 1, 9, DayValue(i))>>
    ELSE IF variant = "low" THEN <<Row(i + 1, 9, Num(10, 1))>>
    ELSE IF variant = "pair" THEN <<Row(i + 1, 0, Num(10, 1)),
                                    Row(i + 1, 23, DayValue(i))>>
    ELSE IF variant = "nan" THEN <<Row(i + 1, 9, NaN)>>
    ELSE <<Row(i + 1, 0, NaN), Row(i + 1, 23, DayValue(i))>>

RECURSIVE DailyRows(_, _, _, _, _)
\* days i..n in order, without day gap (gap = 0: no day is missing)
DailyRows(i, n, gap, p, variant) ==
    IF i > n THEN <<>>
    ELSE (IF i = gap THEN <<>> ELSE DayRows(i, p, variant))
         \o DailyRows(i + 1, n, gap, p, variant)

DailyFile(n, gap, p, variant) ==
    [header |-> <<"time", "mf">>, rows |-> DailyRows(1, n, gap, p, variant)]

\* a daily file with a second numeric column
WideFile(n) ==
    LET f == DailyFile(n, 0, 1, "low")
    IN  [header |-> <<"time", "mf", "mf_variability">>,
         rows   |-> [r \in 1..Len(f.rows) |-> Append(f.rows[r], Num(r % 2, 1))]]

\* one file per week first..first+n-1: two rows in the week, mf 2w and 2w+4
WeeklyFile(first, n) ==
    [header |-> <<"time", "mf">>,
     rows   |-> [r \in 1..(2 * n) |->
                   LET w == first + ((r - 1) \div 2)
                   IN  IF r % 2 = 1 THEN Row(7 * w + 2, 9, Num(2 * w, 1))
                       ELSE Row(7 * w + 6, 23, Num(2 * w + 4, 1))]]

\* Window..MaxDays days: a special day anywhere with one low or one missing
\* value, a first day with two rows, a missing day anywhere after a low first
\* day, and a second column
DailyFiles ==
    {DailyFile(n, 0, p, v) : n \in Window..MaxDays, p \in 1..MaxDays, v \in {"low", "nan"}}
    \cup {DailyFile(n, 0, 1, v) : n \in Window..MaxDays, v \in {"pair", "nanpair"}}
    \cup {DailyFile(n, g, 1, "low") : n \in Window..MaxDays, g \in 2..MaxDays}
    \cup {WideFile(n) : n \in Window..MaxDays}

WeeklyFilesA == {WeeklyFile(first, n) : first \in {0, 2}, n \in 1..MaxWeeks}
WeeklyFilesB == {WeeklyFile(1, n) : n \in {2, MaxWeeks + 1}}

-----------------------------------------------------------------------------
(* State: files is the data directory (read only), obj the constructed     *)
(* Data objects with their attributes, held the tables the caller keeps    *)
(* from weekly_ave() and baseline() (the arguments it can plot), pyplot    *)
(* the figures created so far and the current one, call / ret / err the    *)
(* last call, what it returned and what it raised.                         *)

NoTables == [weekly |-> <<>>, base |-> <<>>]

InitCommon ==
    /\ held = [o \in DOMAIN obj |-> NoTables]
    /\ pyplot = [nfigs |-> 0, fig |-> <<>>]
    /\ call = Call("__init__", "", "", "", "")
    /\ ret = <<>>
    /\ err = NoError
    /\ ncalls = 0

\* one dataset over a daily file
InitDaily ==
    /\ \E f \in DailyFiles : files = (PathOf("MHD", "ch4") :> f)
    /\ obj = [o \in {"a"} |-> Data(files, "MHD", "ch4")]
    /\ InitCommon

\* two datasets over weekly files, the second of a species that matches the
\* first in scale and units, or differs in one of them
InitWeekly ==
    /\ \E fa \in WeeklyFilesA, fb \in WeeklyFilesB, sp \in {"co", "n2o", "c2h6"} :
          /\ files = (PathOf("MHD", "ch4") :> fa) @@ (PathOf("TAC", sp) :> fb)
          /\ obj = [o \in {"a", "b"} |->
                      IF o = "a" THEN Data(files, "MHD", "ch4")
                      ELSE Data(files, "TAC", sp)]
    /\ InitCommon

Init == InitDaily \/ InitWeekly

\* glimpse(self)
glimpse(o) ==
    /\ ncalls < MaxCalls
    /\ call' = Call("glimpse", o, "", "", "")
    /\ ret' = <<Describe(obj[o].df)>>
    /\ err' = NoError
    /\ ncalls' = ncalls + 1
    /\ UNCHANGED <<files, obj, held, pyplot>>

\* weekly_ave(self); the caller keeps the table returned
weekly_ave(o) ==
    /\ ncalls < MaxCalls
    /\ call' = Call("weekly_ave", o, "", "", "")
    /\ obj' = [obj EXCEPT ![o].df = WithPeriod(@, "week", "W")]
    /\ LET df_ave == WeeklyAve(obj[o].df)
       IN  /\ ret' = <<df_ave>>
           /\ held' = [held EXCEPT ![o].weekly = <<df_ave>>]
    /\ err' = NoError
    /\ ncalls' = ncalls + 1
    /\ UNCHANGED <<files, pyplot>>

\* baseline(self); the caller keeps the table returned
baseline(o) ==
    /\ ncalls < MaxCalls
    /\ call' = Call("baseline", o, "", "", "")
    /\ obj' = [obj EXCEPT ![o].df = WithPeriod(@, "day", "D")]
    /\ IF BaselineRaises(obj[o].df)
       THEN /\ err' = Error("ValueError", "Cannot set a DataFrame with multiple columns")
            /\ ret' = <<>>
            /\ held' = held
       ELSE LET df_ave == Baseline(obj[o].df)
            IN  /\ err' = NoError
                /\ ret' = <<df_ave>>
                /\ held' = [held EXCEPT ![o].base = <<df_ave>>]
    /\ ncalls' = ncalls + 1
    /\ UNCHANGED <<files, pyplot>>

\* the figure of plot(self, data) up to the x label
PlotFigure(o, data) ==
    LET x == List([i \in 1..NRows(data) |-> Str(data.index[i])])
        title == data.columns[Len(data.columns)]
        first == <<Line(x, LastColumn(data), "", o.species, o.site, "black")>>
        second == IF ContainsBaseline(title)
                  THEN <<Line(x, ColumnValues(data, Len(data.columns) - 1),
                              "Normal", o.species, "", "seagreen")>>
                  ELSE <<>>
    IN  [NewFigure EXCEPT
           !.lines = first \o second,
           !.title = title,
           !.ylabel = [species |-> o.species, units |-> o.units, scale |-> o.scale]]

\* plot(self, data), data a table the caller holds; index.year[0] of an
\* empty table is an IndexError, raised after the lines are drawn
plot(o, kind) ==
    /\ ncalls < MaxCalls
    /\ held[o][kind] # <<>>
    /\ LET data == held[o][kind][1]
           fig == PlotFigure(obj[o], data)
       IN  /\ call' = Call("plot", o, "", kind, "")
           /\ obj' = [obj EXCEPT ![o] = SetAttr(@, "data", data)]
           /\ IF NRows(data) = 0
              THEN /\ err' = Error("IndexError", "index 0 is out of bounds")
                   /\ pyplot' = [nfigs |-> pyplot.nfigs + 1, fig |-> <<fig>>]
              ELSE /\ err' = NoError
                   /\ pyplot' =
                        [nfigs |-> pyplot.nfigs + 1,
                         fig |-> <<[fig EXCEPT
                                      !.xlabel = [text |-> "Time",
                                                  year |-> YearOf(data.index[1])],
                                      !.xticks = XTicks(NRows(data)),
                                      !.grid = TRUE, !.legend = TRUE,
                                      !.shown = TRUE]>>]
    /\ ret' = <<>>
    /\ ncalls' = ncalls + 1
    /\ UNCHANGED <<files, held>>

\* index.week[:-1] of a table, as integer labels
WeekNumbers(data) == DropLast([i \in 1..NRows(data) |-> Label(WeekOf(data.index[i]))])

\* the figure of plot_compare(self, data, other, data2) up to the x label
CompareFigure(o, data, other, data2) ==
    [NewFigure EXCEPT
       !.lines = <<Line(WeekNumbers(data), DropLast(LastColumn(data)),
                        "", o.species, o.site, "seagreen"),
                   Line(WeekNumbers(data2), DropLast(LastColumn(data2)),
                        "", other.species, other.site, "plum")>>,
       !.title = data.columns[Len(data.columns)],
       !.ylabel = [species |-> o.species, units |-> o.units, scale |-> o.scale]]

\* variant: the scale is not compared
ScaleMatchAlways(o, other) == TRUE

ScaleMatch(o, other) == o.scale = other.scale
UnitsMatch(o, other) == o.units = other.units

\* plot_compare(self, data, other, data2), data and data2 the tables of one
\* kind that the caller holds of self and of other
plot_compare(o, kind, other) ==
    /\ ncalls < MaxCalls
    /\ held[o][kind] # <<>>
    /\ held[other][kind] # <<>>
    /\ LET data == held[o][kind][1]
           data2 == held[other][kind][1]
           fig == CompareFigure(obj[o], data, obj[other], data2)
       IN  /\ call' = Call("plot_compare", o, other, kind, kind)
           /\ IF ~UnitsMatch(obj[o], obj[other])
              THEN /\ err' = Error("TypeError", "Units must match")
                   /\ UNCHANGED <<obj, pyplot>>
              ELSE IF ~ScaleMatch(obj[o], obj[other])
              THEN /\ err' = Error("TypeError", "Scale must match")
                   /\ UNCHANGED <<obj, pyplot>>
              ELSE /\ obj' = [x \in DOMAIN obj |->
                                LET o1 == IF x = o THEN SetAttr(obj[x], "data", data)
                                          ELSE obj[x]
                                IN  IF x = other THEN SetAttr(o1, "data2", data2)
                                    ELSE o1]
                   /\ IF NRows(data) = 0
                      THEN /\ err' = Error("IndexError", "index 0 is out of bounds")
                           /\ pyplot' = [nfigs |-> pyplot.nfigs + 1, fig |-> <<fig>>]
                      ELSE /\ err' = NoError
                           /\ pyplot' =
                                [nfigs |-> pyplot.nfigs + 1,
                                 fig |-> <<[fig EXCEPT
                                              !.xlabel = [text |-> "Weeks",
                                                          year |-> YearOf(data.index[1])],
                                              !.grid = TRUE, !.legend = TRUE,
                                              !.shown = TRUE]>>]
    /\ ret' = <<>>
    /\ ncalls' = ncalls + 1
    /\ UNCHANGED <<files, held>>

Kinds == {"weekly", "base"}

Next ==
    \/ \E o \in DOMAIN obj : glimpse(o)
    \/ \E o \in DOMAIN obj : weekly_ave(o)
    \/ \E o \in DOMAIN obj : baseline(o)
    \/ \E o \in DOMAIN obj, kind \in Kinds : plot(o, kind)
    \/ \E o \in DOMAIN obj, other \in DOMAIN obj, kind \in Kinds :
          plot_compare(o, kind, other)

Spec == Init /\ [][Next]_vars

-----------------------------------------------------------------------------
(* Reference definitions for the properties: the raw input read straight   *)
(* from the file, means and percentiles computed from their definitions.   *)

Max(a, b) == IF a > b THEN a ELSE b
Called(op) == call.op = op
Returned(op) == call.op = op /\ err = NoError

RawRows(o) == files[obj[o].path].rows
Range(s) == {s[i] : i \in 1..Len(s)}

\* the mf values present (not missing) at times lo <= t < hi, in file order
MfIn(o, lo, hi) ==
    LET rows == SelectSeq(RawRows(o),
                          LAMBDA r : lo <= r[1].n /\ r[1].n < hi /\ ~IsNaN(r[2]))
    IN  List([i \in 1..Len(rows) |-> rows[i][2]])

RefMean(cells) ==
    IF cells = <<>> THEN NaN ELSE RMul(RSum(cells), Num(1, Len(cells)))

MinOf(s) == CHOOSE x \in Range(s) : \A y \in Range(s) : RLeq(x, y)
WithoutOne(s, x) ==
    LET i == CHOOSE j \in 1..Len(s) : s[j] = x
    IN  SubSeq(s, 1, i - 1) \o SubSeq(s, i + 1, Len(s))

\* the 5th percentile of 1..20 numbers: 5% of the way along the sorted
\* values lies between the smallest and the second smallest
P5(s) ==
    IF Len(s) = 1 THEN s[1]
    ELSE LET m0 == MinOf(s)
             m1 == MinOf(WithoutOne(s, m0))
         IN  RAdd(m0, RMul(RSub(m1, m0), Num(5 * (Len(s) - 1), 100)))

\* the calendar days and weeks (ordinals) that have a raw row
DaysOf(o) == {r[1].n \div 24 : r \in Range(RawRows(o))}
WeeksOf(o) == {r[1].n \div 168 : r \in Range(RawRows(o))}
DayMean(o, d) == RefMean(MfIn(o, 24 * d, 24 * d + 24))

-----------------------------------------------------------------------------
(* C1 *)

\* C1: weekly_ave() returns exactly one row per calendar week (Monday to
\* Sunday) that has a raw row, and the row's value is the arithmetic mean of
\* the mf values present in that week (NaN when the week has none).
C1_WeeklyMeans ==
    Called("weekly_ave") =>
        LET t == ret[1]
            o == call.self
            c == Col(t, "Weekly average mole fraction")
        IN  /\ NRows(t) = Cardinality(WeeksOf(o))
            /\ Range(t.index) = {Period("W", w) : w \in WeeksOf(o)}
            /\ \A i \in 1..NRows(t) :
                  t.data[i][c] = RefMean(MfIn(o, 168 * t.index[i].n,
                                                 168 * t.index[i].n + 168))

\* a weekly table of three weeks, computed from more raw rows than weeks,
\* one of them a missing value
C1_Witness ==
    /\ Called("weekly_ave")
    /\ NRows(ret[1]) = 3
    /\ Len(RawRows(call.self)) > 3
    /\ \E r \in Range(RawRows(call.self)) : IsNaN(r[2])

-----------------------------------------------------------------------------
(* C2 *)

\* C2 as stated: baseline() returns exactly max(0, D - 13) rows, the 14th and
\* later of the D distinct days of the input.
C2_DropsFirst13Only ==
    Returned("baseline") =>
        LET t == ret[1]
            days == SortedSeq(DaysOf(call.self))
        IN  /\ NRows(t) = Max(0, Len(days) - 13)
            /\ \A i \in 1..NRows(t) : t.index[i] = Period("D", days[13 + i])

\* the positions, in day order, of the days baseline() keeps: the 14th and
\* later whose 14 rows up to it all have an mf value
KeptDays(o) ==
    LET days == SortedSeq(DaysOf(o))
    IN  SelectSeq(Indices(Len(days)),
                  LAMBDA r : /\ r >= Window
                             /\ \A j \in (r - Window + 1)..r :
                                   MfIn(o, 24 * days[j], 24 * days[j] + 24) # <<>>)

\* C2 (amended): baseline() drops the first 13 rows of the day-grouped series
\* and, besides them, every row whose 14 rows up to it include a day that
\* has no mf value; the other days are returned, in day order.
C2_DropsFirst13AndNaN ==
    Returned("baseline") =>
        LET t == ret[1]
            days == SortedSeq(DaysOf(call.self))
            kept == KeptDays(call.self)
        IN  t.index = [i \in 1..Len(kept) |-> Period("D", days[kept[i]])]

\* fifteen days, the first without an mf value: the 14th day is dropped with
\* the first 13 and only the 15th is returned
C2_Witness ==
    /\ Returned("baseline")
    /\ Cardinality(DaysOf(call.self)) = 15
    /\ NRows(ret[1]) = 1

-----------------------------------------------------------------------------
(* C3 *)

\* the rows of the result whose day d is the pos-th day of the input
DayPos(o, d) == Cardinality({x \in DaysOf(o) : x <= d})

-----------------------------------------------------------------------------
(* C4 *)

\* C4: a plot_compare call on datasets whose units differ, or whose scales
\* differ, raises the mismatch error (a TypeError) and creates or shows no
\* figure; a call on datasets that agree in both raises no mismatch error.
C4_MismatchRaises ==
    [][(call'.op = "plot_compare" /\ ncalls' = ncalls + 1) =>
          LET o == obj[call'.self]
              other == obj[call'.other]
          IN  IF o.units # other.units \/ o.scale # other.scale
              THEN err'.type = "TypeError" /\ pyplot' = pyplot /\ ret' = <<>>
              ELSE err'.type # "TypeError"]_vars

\* a comparison of ch4 with n2o: same units, another scale
C4_Witness ==
    /\ Called("plot_compare")
    /\ obj[call.self].units = obj[call.other].units
    /\ obj[call.self].scale # obj[call.other].scale
    /\ err = Error("TypeError", "Scale must match")
    /\ pyplot.nfigs = 0

-----------------------------------------------------------------------------
(* C5 *)

MfCount(t) == t.data[1][Col(t, "mf")]

\* C5 as stated: the count glimpse() reports for mf is the number of raw
\* rows.
C5_CountIsRowCount ==
    Called("glimpse") => MfCount(ret[1]) = Num(Len(RawRows(call.self)), 1)

\* C5 (amended): the count glimpse() reports for mf is the number of raw rows
\* whose mf value is not missing, whatever was called before.
C5_CountIsPresentCount ==
    Called("glimpse") =>
        MfCount(ret[1]) =
            Num(Cardinality({i \in 1..Len(RawRows(call.self)) :
                               ~IsNaN(RawRows(call.self)[i][2])}), 1)

\* glimpse() after weekly_ave() and baseline() on a file with a missing value
C5_Witness ==
    /\ Called("glimpse")
    /\ HasCol(obj[call.self].df, "week")
    /\ HasCol(obj[call.self].df, "day")
    /\ \E r \in Range(RawRows(call.self)) : IsNaN(r[2])

-----------------------------------------------------------------------------
(* C6 *)

ExtraColumns(o) == Range(files[obj[o].path].header) \ {"time", "mf"}

\* C6: on a table with further numeric columns weekly_ave() and baseline()
\* complete without error and return each further column.
C6_ExtraColumnsAccepted ==
    (/\ call.op \in {"weekly_ave", "baseline"}
     /\ ExtraColumns(call.self) # {}) =>
        /\ err = NoError
        /\ ret # <<>>
        /\ ExtraColumns(call.self) \subseteq Range(ret[1].columns)

-----------------------------------------------------------------------------
(* C7 *)

Constructed(o) == Data(files, obj[o].site, obj[o].species)

\* the raw rows, site, species, scale and units are as constructed and the
\* stored table has gained at most the columns week and day
RawStateKept(o) ==
    LET c == Constructed(o)
        df == obj[o].df
    IN  /\ obj[o].path \in DOMAIN files
        /\ \A a \in {"site", "species", "path", "scale", "units"} : obj[o][a] = c[a]
        /\ Range(df.columns) \subseteq Range(c.df.columns) \cup {"week", "day"}
        /\ df.index = c.df.index
        /\ \A n \in Range(c.df.columns) :
              /\ HasCol(df, n)
              /\ ColumnValues(df, Col(df, n)) = ColumnValues(c.df, Col(c.df, n))

\* C7 as stated: the stored table's derived columns are the only change to a
\* dataset; no attribute is added.
C7_OnlyPeriodColumns ==
    \A o \in DOMAIN obj :
        /\ RawStateKept(o)
        /\ DOMAIN obj[o] = DOMAIN Constructed(o)

\* C7 (amended): besides the derived columns, plot and plot_compare set the
\* attribute data of the dataset to the table they are given and
\* plot_compare sets the attribute data2 of the other dataset; nothing else
\* changes.
C7_PeriodColumnsAndPlotData ==
    \A o \in DOMAIN obj :
        /\ RawStateKept(o)
        /\ DOMAIN obj[o] \subseteq DOMAIN Constructed(o) \cup {"data", "data2"}
        /\ (Called("plot") /\ call.self = o) => obj[o].data = held[o][call.data][1]
        /\ (Called("plot_compare") /\ err.type # "TypeError" /\ call.self = o) =>
              obj[o].data = held[o][call.data][1]
        /\ (Called("plot_compare") /\ err.type # "TypeError" /\ call.other = o) =>
              obj[o].data2 = held[o][call.data2][1]

\* after a comparison the other dataset holds data2, and the first dataset's
\* table has both derived columns
C7_Witness ==
    /\ Returned("plot_compare")
    /\ call.self # call.other
    /\ "data2" \in DOMAIN obj[call.other]
    /\ "data" \in DOMAIN obj[call.self]
    /\ HasCol(obj[call.self].df, "week")

-----------------------------------------------------------------------------
(* C8 *)

\* line is table's rows but the last, in order: week number against the
\* last column
IsAllButLast(line, table) ==
    /\ Len(line.x) = NRows(table) - 1
    /\ Len(line.y) = NRows(table) - 1
    /\ \A i \in 1..(NRows(table) - 1) :
          /\ line.x[i] = Label(WeekOf(table.index[i]))
          /\ line.y[i] = table.data[i][Len(table.columns)]

\* C8: a plot_compare call that passes the unit/scale check plots each table
\* (of at least one row) without its own last row, in order, with the last
\* column as y: n rows give n - 1 points, whatever the other table's length.
C8_EachSeriesLosesItsLastRow ==
    (Called("plot_compare") /\ err.type # "TypeError") =>
        LET data == held[call.self][call.data][1]
            data2 == held[call.other][call.data2][1]
            lines == pyplot.fig[1].lines
        IN  /\ Len(lines) = 2
            /\ NRows(data) >= 1 => IsAllButLast(lines[1], data)
            /\ NRows(data2) >= 1 => IsAllButLast(lines[2], data2)

\* two weekly tables of different lengths, plotted with 2 points and 1 point
C8_Witness ==
    /\ Returned("plot_compare")
    /\ call.data = "weekly" /\ call.data2 = "weekly"
    /\ NRows(held[call.self].weekly[1]) = 3
    /\ NRows(held[call.other].weekly[1]) = 2
    /\ Len(pyplot.fig[1].lines[1].x) = 2
    /\ Len(pyplot.fig[1].lines[2].x) = 1
    /\ pyplot.fig[1].shown

-----------------------------------------------------------------------------
(* C9 *)

\* C9: the week numbers plotted for two weekly_ave() tables lie in 1..52 and
\* increase strictly within each series.
C9_WeekAxis ==
    (Returned("plot_compare") /\ call.data = "weekly" /\ call.data2 = "weekly") =>
        \A l \in 1..2 :
           LET x == pyplot.fig[1].lines[l].x
           IN  /\ \A i \in 1..Len(x) : x[i].n \in 1..52
               /\ \A i \in 1..(Len(x) - 1) : x[i].n < x[i + 1].n

-----------------------------------------------------------------------------
(* C10 *)

\* C10: weekly_ave() and baseline() return (or raise) what they do as the
\* first call on the freshly constructed dataset, whatever was called before:
\* the week and day columns left on the stored table change nothing.
C10_IndependentOfHistory ==
    LET fresh == read_csv(files[obj[call.self].path])
    IN  /\ Called("weekly_ave") => ret = <<WeeklyAve(fresh)>> /\ err = NoError
        /\ Called("baseline") =>
              IF BaselineRaises(fresh) THEN ret = <<>> /\ err.type = "ValueError"
              ELSE ret = <<Baseline(fresh)>> /\ err = NoError

\* a third call, weekly_ave() again after weekly_ave() and baseline(): the
\* stored table holds week and day, in this order
C10_Witness ==
    /\ Called("weekly_ave")
    /\ ncalls = 3
    /\ HasCol(obj[call.self].df, "day")
    /\ Col(obj[call.self].df, "week") < Col(obj[call.self].df, "day")
    /\ NRows(ret[1]) >= 2

=============================================================================
